---- MODULE Spec2Model ----
(***************************************************************************)
(* A model of StockTracker/main.py: the relevance filter, the news fetch   *)
(* with its fallback chain, the market-data fetch and the Streamlit page   *)
(* function main() that composes them.                                     *)
(*                                                                         *)
(* Python strings are modelled as sequences of one-character strings, so   *)
(* that lower(), split() and the substring test `in` are computed and not  *)
(* assumed.                                                                *)
(***************************************************************************)
EXTENDS Integers, Sequences, FiniteSets, TLC

VARIABLES
    relIn,      \* arguments of one check_article_relevance call
    relOut,     \* its outcome
    newsIn,     \* arguments and configuration of one fetch_news_articles call
    newsOut,    \* its outcome and the provider calls it made
    sentIn,     \* the article list of one get_overall_sentiment call
    sentOut,    \* its outcome and the scores VADER gave
    stockIn,    \* arguments of one fetch_stock_data call
    stockOut,   \* its outcome and the provider answers it met
    now,        \* wall clock of the Streamlit server process
    newsCache,  \* st.cache_data store of fetch_news_articles
    sentCache,  \* st.cache_data store of get_overall_sentiment
    env,        \* process configuration: NEWS_API_KEY, nlp
    runs,       \* number of script runs so far
    prev,       \* record of the script run before the last one
    last        \* record of the last script run

vars == <<relIn, relOut, newsIn, newsOut, sentIn, sentOut, stockIn, stockOut, now, newsCache,
          sentCache, env, runs, prev, last>>

\* Python's None, distinct from every string of the model
None == <<"<None>">>

(***************************************************************************)
(* Strings                                                                 *)
(***************************************************************************)
S_empty == <<>>
SP == " "

\* str.lower() on the characters the model's texts use
LowerChar(c) ==
    CASE c = "A" -> "a" [] c = "P" -> "p" [] c = "L" -> "l" [] c = "I" -> "i"
      [] c = "S" -> "s" [] c = "R" -> "r" [] c = "N" -> "n" [] c = "O" -> "o"
      [] OTHER -> c

Lower(s) == [i \in 1..Len(s) |-> LowerChar(s[i])]

\* Python's `needle in hay` on strings
IsSubstr(needle, hay) ==
    \E i \in 0..(Len(hay) - Len(needle)) :
        \A j \in 1..Len(needle) : hay[i + j] = needle[j]

\* Python's str.split(): the maximal runs of non-blank characters, in order
RECURSIVE SplitFrom(_, _, _)
SplitFrom(s, i, cur) ==
    IF i > Len(s)
    THEN IF cur = <<>> THEN <<>> ELSE <<cur>>
    ELSE IF s[i] = SP
         THEN (IF cur = <<>> THEN <<>> ELSE <<cur>>) \o SplitFrom(s, i + 1, <<>>)
         ELSE SplitFrom(s, i + 1, Append(cur, s[i]))

Split(s) == SplitFrom(s, 1, <<>>)

Range(f) == {f[i] : i \in DOMAIN f}

RECURSIVE SeqsUpTo(_, _)
SeqsUpTo(S, n) ==
    IF n = 0 THEN {<<>>}
    ELSE LET shorter == SeqsUpTo(S, n - 1)
         IN shorter \cup {Append(q, x) : q \in {r \in shorter : Len(r) = n - 1}, x \in S}

(***************************************************************************)
(* Texts used as inputs                                                    *)
(***************************************************************************)
T_Apple    == <<"A","p","p","l","e">>
T_AAPL     == <<"A","A","P","L">>
T_AppleInc == <<"A","p","p","l","e"," ","I","n","c",".">>
T_Stock    == <<"S","t","o","c","k">>
T_Rain     == <<"R","a","i","n">>
T_Glossy   == <<"g","l","o","s","s","y">>
T_NA       == <<"N","/","A">>

\* stock_keywords of check_article_relevance
stock_keywords == <<
    <<"s","t","o","c","k">>, <<"s","h","a","r","e","s">>, <<"m","a","r","k","e","t">>,
    <<"i","n","v","e","s","t","o","r">>, <<"f","i","n","a","n","c","e">>,
    <<"e","a","r","n","i","n","g","s">>, <<"r","e","v","e","n","u","e">>,
    <<"p","r","o","f","i","t">>, <<"l","o","s","s">> >>

(***************************************************************************)
(* check_article_relevance                                                 *)
(***************************************************************************)
\* article.get(k, '').lower() if article.get(k) else ''
FieldLower(article, k) ==
    IF k \in DOMAIN article /\ article[k] # None /\ article[k] # S_empty
    THEN Lower(article[k]) ELSE S_empty

\* content = title + ' ' + description
Content(article) == FieldLower(article, "title") \o <<SP>> \o FieldLower(article, "description")

\* company_name.lower().split() if company_name else []
CompanyWords(company_name) ==
    IF company_name # None /\ company_name # S_empty THEN Split(Lower(company_name)) ELSE <<>>

\* entities = [ent.text.lower() for ent in doc.ents if ent.label_ in ['ORG', 'PRODUCT']]
Entities(nerOut) == {Lower(e.text) : e \in {x \in nerOut.ents : x.label \in {"ORG", "PRODUCT"}}}

\* the value of is_relevant: the entity path when nlp is loaded (False when it
\* raises), the substring path otherwise
IsRelevantMatch(content, company_name, symbol, nlpLoaded, nerOut) ==
    IF nlpLoaded
    THEN IF nerOut.raised THEN FALSE
         ELSE (\E w \in Range(CompanyWords(company_name)) : w \in Entities(nerOut))
              \/ Lower(symbol) \in Entities(nerOut)
    ELSE (\E w \in Range(CompanyWords(company_name)) : IsSubstr(w, content))
         \/ IsSubstr(Lower(symbol), content)

HasStockKeyword(content) == \E k \in Range(stock_keywords) : IsSubstr(k, content)

Combine_and(is_relevant, has_stock_keyword) == is_relevant /\ has_stock_keyword

\* relevance_score = (is_relevant or has_stock_keyword)
Combine(is_relevant, has_stock_keyword) == is_relevant \/ has_stock_keyword

CheckArticleRelevance(article, company_name, symbol, nlpLoaded, nerOut) ==
    Combine(IsRelevantMatch(Content(article), company_name, symbol, nlpLoaded, nerOut),
            HasStockKeyword(Content(article)))

(***************************************************************************)
(* spaCy's nlp(content): an outcome is an exception or a set of labelled   *)
(* entity spans.  NerOf gives the three behaviours the news fetch is run   *)
(* against: every token an ORG entity, no entity at all, or an exception.  *)
(***************************************************************************)
NerRaise == [raised |-> TRUE, ents |-> {}]

NerOf(tag, content) ==
    CASE tag = "tokens" -> [raised |-> FALSE,
                            ents |-> {[text |-> t, label |-> "ORG"] : t \in Range(Split(content))}]
      [] tag = "raise"  -> NerRaise
      [] OTHER          -> [raised |-> FALSE, ents |-> {}]

\* check_article_relevance under the process's nlp: "off" is nlp = None
Relevant(article, company_name, symbol, nlp) ==
    CheckArticleRelevance(article, company_name, symbol, nlp # "off", NerOf(nlp, Content(article)))

(***************************************************************************)
(* fetch_news_articles_fallback                                            *)
(***************************************************************************)
FallbackCap == 5
GoogleSlice == 10
YahooHost   == "https://finance.yahoo.com"

Take(s, n) == IF Len(s) <= n THEN s ELSE SubSeq(s, 1, n)

\* f"https://finance.yahoo.com{link}" if link.startswith('/') else link
YahooUrl(link) == IF Len(link) > 0 /\ link[1] = "/" THEN <<YahooHost>> \o link ELSE link

\* one <li> of the Yahoo page: skipped when parsing it raises or title/link is empty
YahooKeep(item, company_name, symbol, nlp) ==
    /\ ~item.raises
    /\ item.title # S_empty /\ item.link # S_empty

YahooArticle(item) ==
    [title |-> item.title, url |-> YahooUrl(item.link), description |-> item.description,
     source |-> "Yahoo Finance", publishedAt |-> item.pub]

\* one <item> of the Google News feed: kept when title and link are non-empty and
\* check_article_relevance accepts it
GoogleKeep(item, company_name, symbol, nlp) ==
    /\ ~item.raises
    /\ item.title # S_empty /\ item.link # S_empty
    /\ Relevant([title |-> item.title, description |-> item.description], company_name, symbol, nlp)

GoogleArticle(item) ==
    [title |-> item.title, url |-> item.link, description |-> item.description,
     source |-> "Google News", publishedAt |-> item.pub]

RECURSIVE YahooLoop(_, _, _, _, _)
YahooLoop(items, i, company_name, symbol, nlp) ==
    IF i > Len(items) THEN <<>>
    ELSE (IF YahooKeep(items[i], company_name, symbol, nlp)
          THEN <<YahooArticle(items[i])>> ELSE <<>>)
         \o YahooLoop(items, i + 1, company_name, symbol, nlp)

RECURSIVE GoogleLoop(_, _, _, _, _)
GoogleLoop(items, i, company_name, symbol, nlp) ==
    IF i > Len(items) THEN <<>>
    ELSE (IF GoogleKeep(items[i], company_name, symbol, nlp)
          THEN <<GoogleArticle(items[i])>> ELSE <<>>)
         \o GoogleLoop(items, i + 1, company_name, symbol, nlp)

\* return articles[:5]
FallbackReturn(articles) == Take(articles, FallbackCap)

\* yahoo, google: the provider's response, [ok, items]; ~ok is a request, status
\* or parse error, which leaves the list as it was
FetchNewsArticlesFallback(symbol, company_name, nlp, yahoo, google) ==
    LET fromYahoo  == IF yahoo.ok THEN YahooLoop(yahoo.items, 1, company_name, symbol, nlp)
                      ELSE <<>>
        askGoogle  == Len(fromYahoo) < FallbackCap
        fromGoogle == IF askGoogle /\ google.ok
                      THEN GoogleLoop(Take(google.items, GoogleSlice), 1, company_name, symbol, nlp)
                      ELSE <<>>
    IN  [articles     |-> FallbackReturn(fromYahoo \o fromGoogle),
         yahooCalls   |-> 1,
         googleCalls  |-> IF askGoogle THEN 1 ELSE 0]

(***************************************************************************)
(* fetch_news_articles (the function the cache wraps)                      *)
(***************************************************************************)
T_FullText == <<"f","u","l","l">>

\* article.get('description', '')
DescriptionOr(article) == IF "description" \in DOMAIN article THEN article.description ELSE S_empty

\* the inner try: Article(url).download()/parse() sets full_text, a failure
\* substitutes the description
WithFullText(article, dlFails) ==
    article @@ ("full_text" :> IF article.url \in dlFails THEN DescriptionOr(article)
                               ELSE T_FullText)

\* len(unique_articles) == num_articles: break
LoopBreaks(n, num_articles) == n = num_articles

\* the for loop over the primary's articles; unique_articles is an insertion-
\* ordered dict keyed by URL, modelled as the sequence of its values.
\* err: article['url'] raised KeyError, which leaves the loop and the try block
RECURSIVE PrimaryLoop(_, _, _, _, _, _, _, _)
PrimaryLoop(articles, i, unique, symbol, company_name, num_articles, nlp, dlFails) ==
    IF i > Len(articles) THEN [err |-> FALSE, unique |-> unique]
    ELSE LET a == articles[i] IN
         IF ~Relevant(a, company_name, symbol, nlp)
         THEN PrimaryLoop(articles, i + 1, unique, symbol, company_name, num_articles, nlp, dlFails)
         ELSE IF "url" \notin DOMAIN a THEN [err |-> TRUE, unique |-> unique]
         ELSE IF \E j \in DOMAIN unique : unique[j].url = a.url
         THEN PrimaryLoop(articles, i + 1, unique, symbol, company_name, num_articles, nlp, dlFails)
         ELSE LET u2 == Append(unique, WithFullText(a, dlFails)) IN
              IF LoopBreaks(Len(u2), num_articles) THEN [err |-> FALSE, unique |-> u2]
              ELSE PrimaryLoop(articles, i + 1, u2, symbol, company_name, num_articles, nlp, dlFails)

\* why fetch_news_articles leaves its primary path: "" when it does not
FallbackReason_noempty(hasKey, primary, loop) ==
    IF ~hasKey THEN "no_key"
    ELSE IF primary.status # "ok" THEN primary.status
    ELSE IF primary.articles # <<>> /\ loop.err THEN "processing_error"
    ELSE ""

FallbackReason(hasKey, primary, loop) ==
    IF ~hasKey THEN "no_key"
    ELSE IF primary.status # "ok" THEN primary.status
    ELSE IF primary.articles = <<>> THEN "no_articles"
    ELSE IF loop.err THEN "processing_error"
    ELSE ""

\* the exception classes the providers' clients and the parsing raise, all of
\* them subclasses of Exception
Exceptions == {"RequestException", "ValueError", "KeyError", "Exception"}

\* the exception that makes fetch_news_articles leave its try block for this
\* reason: RequestException from requests.get / raise_for_status, ValueError from
\* response.json(), KeyError from article['url']; "" when nothing is raised
ExceptionOf(reason) ==
    IF reason = "request_error" THEN "RequestException"
    ELSE IF reason = "bad_payload" THEN "ValueError"
    ELSE IF reason = "processing_error" THEN "KeyError"
    ELSE ""

\* `except requests.RequestException` followed by `except Exception`
NewsCatches_requests(exc) == exc = "RequestException"

NewsCatches(exc) == exc = "RequestException" \/ exc \in Exceptions

\* what fetch_news_articles returns when it leaves the primary path:
\* `return fetch_news_articles_fallback(...)`, unique_articles is dropped
FallbackResult_keep(unique_articles, fallback) == unique_articles \o fallback

FallbackResult(unique_articles, fallback) == fallback

\* primary: [status, articles], status "ok", "request_error" (RequestException
\* from requests.get / raise_for_status) or "bad_payload" (response.json() raises).
\* raised: an exception leaves the function
FetchNewsArticles(symbol, company_name, num_articles, hasKey, nlp, primary, dlFails, yahoo, google) ==
    LET loop   == IF hasKey /\ primary.status = "ok"
                  THEN PrimaryLoop(primary.articles, 1, <<>>, symbol, company_name,
                                   num_articles, nlp, dlFails)
                  ELSE [err |-> FALSE, unique |-> <<>>]
        reason == FallbackReason(hasKey, primary, loop)
        fb     == FetchNewsArticlesFallback(symbol, company_name, nlp, yahoo, google)
    IN  IF reason = ""
        THEN [articles |-> loop.unique, via |-> "primary", reason |-> reason, raised |-> FALSE,
              primaryCalls |-> 1, fallbackCalls |-> 0, yahooCalls |-> 0, googleCalls |-> 0]
        ELSE IF ExceptionOf(reason) # "" /\ ~NewsCatches(ExceptionOf(reason))
        THEN [articles |-> <<>>, via |-> "none", reason |-> reason, raised |-> TRUE,
              primaryCalls |-> 1, fallbackCalls |-> 0, yahooCalls |-> 0, googleCalls |-> 0]
        ELSE [articles |-> FallbackResult(loop.unique, fb.articles), via |-> "fallback",
              reason |-> reason, raised |-> FALSE,
              primaryCalls |-> IF hasKey THEN 1 ELSE 0, fallbackCalls |-> 1,
              yahooCalls |-> fb.yahooCalls, googleCalls |-> fb.googleCalls]

(***************************************************************************)
(* fetch_stock_data and its helpers                                        *)
(*                                                                         *)
(* A Python number n is the pair <<"int", n>>, which no string equals.  A  *)
(* DataFrame or a list of dicts is the record [rows |-> <<...>>]; a dict   *)
(* is a record; where Python has None in their place the model has NoneObj.*)
(***************************************************************************)
Num(n) == <<"int", n>>
IsNumber(v) == Len(v) = 2 /\ v[1] = "int"

NoneObj == [isNone |-> TRUE]
IsNoneObj(x) == "isNone" \in DOMAIN x
Frame(rows) == [rows |-> rows]

InfoKeys == {"longName", "sector", "industry", "country", "website", "marketCap",
             "forwardPE", "trailingPE", "dividendYield", "bookValue", "priceToBook",
             "returnOnEquity", "returnOnAssets", "debtToEquity", "currentRatio",
             "quickRatio", "beta", "fiftyTwoWeekHigh", "fiftyTwoWeekLow",
             "averageVolume", "fullTimeEmployees"}

\* fetch_alpha_vantage_data: the three statements, or (None, None, None) on any error
FetchAlphaVantageData(av) ==
    IF av.ok THEN [income_statement |-> Frame(av.income), balance_sheet |-> Frame(av.balance),
                   cash_flow |-> Frame(av.cash)]
    ELSE [income_statement |-> NoneObj, balance_sheet |-> NoneObj, cash_flow |-> NoneObj]

\* calculate_historical_forward_pe: one row per statement with eps > 0, holding
\* current_price / eps (kept as the pair of its operands)
RECURSIVE ForwardPeRows(_, _)
ForwardPeRows(statements, current_price) ==
    IF statements = <<>> THEN <<>>
    ELSE (IF Head(statements).eps > 0
          THEN <<[date |-> Head(statements).date,
                  forward_pe |-> <<current_price, Head(statements).eps>>]>>
          ELSE <<>>)
         \o ForwardPeRows(Tail(statements), current_price)

CalculateHistoricalForwardPe(income_statement, current_price) ==
    Frame(ForwardPeRows(income_statement.rows, current_price))

\* fetch_analyst_recommendations: stock.recommendations, or None on any error
FetchAnalystRecommendations(mkt) == IF mkt.recsOk THEN Frame(mkt.recs) ELSE NoneObj

\* info.get(k, 'N/A')
InfoGet(blob, k) == IF k \in DOMAIN blob THEN blob[k] ELSE T_NA

\* Python truthiness of a statement list: not None and not empty
Truthy(frame) == ~IsNoneObj(frame) /\ frame.rows # <<>>

\* how often fetch_stock_data asks the primary provider for the price history,
\* how often it sleeps between attempts, how often it asks a secondary provider
\* for prices: stock.history is called once, there is neither a loop nor a
\* sleep, and no other price source is called
PrimaryAttempts == 1
BackoffDelays   == 0
SecondaryPriceCalls == 0

\* `except Exception` around the whole body of fetch_stock_data
StockCatches(exc) == exc \in Exceptions

\* the body left by exception exc at the given stage: (None, None) when the
\* except clause catches it
StockFailure(stage, exc) ==
    [hist |-> NoneObj, info |-> NoneObj, attempts |-> PrimaryAttempts,
     delays |-> BackoffDelays, secondaryCalls |-> SecondaryPriceCalls,
     avCalls |-> 0, stage |-> stage, raised |-> exc # "" /\ ~StockCatches(exc)]

\* mkt: what the providers answer. history: "raise", or "ok" with the rows
\* (closes); infoOk: stock.info does not raise.  raised: an exception leaves the
\* function
FetchStockData(symbol, start_date, end_date, mkt) ==
    LET fin     == FetchAlphaVantageData(mkt.av)
        price   == mkt.closes[Len(mkt.closes)]
        pe      == IF price # 0 /\ Truthy(fin.income_statement)
                   THEN CalculateHistoricalForwardPe(fin.income_statement, price)
                   ELSE Frame(<<>>)
        basics  == [k \in InfoKeys |-> InfoGet(mkt.blob, k)]
        extras  == [peHistory |-> pe, income_statement |-> fin.income_statement,
                    balance_sheet |-> fin.balance_sheet, cash_flow |-> fin.cash_flow,
                    analyst_recommendations |-> FetchAnalystRecommendations(mkt)]
    IN  IF mkt.history = "raise" THEN StockFailure("history_error", "Exception")
        ELSE IF mkt.closes = <<>> THEN StockFailure("empty_history", "")
        ELSE IF ~mkt.infoOk THEN StockFailure("info_error", "Exception")
        ELSE [hist |-> Frame(mkt.closes), info |-> basics @@ extras,
              attempts |-> PrimaryAttempts, delays |-> BackoffDelays,
              secondaryCalls |-> SecondaryPriceCalls, avCalls |-> 1, stage |-> "ok",
              raised |-> FALSE]

(***************************************************************************)
(* analyze_sentiment and get_overall_sentiment                             *)
(*                                                                         *)
(* VADER's scores are counted in hundredths: the integer 40 is the score   *)
(* 0.4.  A quotient is the pair <<numerator, denominator>> in lowest terms,*)
(* so that no average is rounded; the number n is <<n, 1>>.                *)
(***************************************************************************)
ScoreKeys == {"compound", "pos", "neu", "neg"}
ZeroScores == [k \in ScoreKeys |-> 0]

Abs(n) == IF n < 0 THEN -n ELSE n

RECURSIVE Gcd(_, _)
Gcd(a, b) == IF b = 0 THEN a ELSE Gcd(b, a % b)

\* value / num_articles, num_articles > 0
Quotient(value, n) == <<value \div Gcd(Abs(value), n), n \div Gcd(Abs(value), n)>>

\* comparisons of a quotient with a score given in hundredths
Gt(q, h) == q[1] > h * q[2]
Ge(q, h) == q[1] >= h * q[2]
Lt(q, h) == q[1] < h * q[2]
Le(q, h) == q[1] <= h * q[2]

\* vader: what SentimentIntensityAnalyzer does with the text, [raised, scores]
AnalyzeSentiment(text, vader) ==
    IF text = None THEN ZeroScores
    ELSE IF vader.raised THEN ZeroScores
    ELSE vader.scores

\* article.get(k) or ''
FieldOrEmpty(article, k) ==
    IF k \in DOMAIN article /\ article[k] # None THEN article[k] ELSE S_empty

\* (title or '') + ' ' + (description or '') + ' ' + (full_text or '')
SentimentText(article) ==
    FieldOrEmpty(article, "title") \o <<SP>> \o FieldOrEmpty(article, "description")
    \o <<SP>> \o FieldOrEmpty(article, "full_text")

\* total_scores after the loop over articles[i..]; lexicon maps a text to what
\* VADER does with it
RECURSIVE TotalScores(_, _, _)
TotalScores(articles, i, lexicon) ==
    IF i > Len(articles) THEN ZeroScores
    ELSE LET scores == AnalyzeSentiment(SentimentText(articles[i]),
                                        lexicon[SentimentText(articles[i])])
             rest   == TotalScores(articles, i + 1, lexicon)
         IN  [k \in ScoreKeys |-> scores[k] + rest[k]]

\* the if/elif chain over compound_score
IsVeryPositive(c) == Gt(c, 40)

IsPositive_open(c) == Gt(c, 10) /\ Lt(c, 40)

IsPositive(c) == Ge(c, 10) /\ Le(c, 40)
IsNeutral(c) == Gt(c, -10) /\ Lt(c, 10)
IsNegative(c) == Ge(c, -40) /\ Le(c, -10)

OverallLabel(c) ==
    IF IsVeryPositive(c) THEN "Very Positive"
    ELSE IF IsPositive(c) THEN "Positive"
    ELSE IF IsNeutral(c) THEN "Neutral"
    ELSE IF IsNegative(c) THEN "Negative"
    ELSE "Very Negative"

\* `if not articles:`
NoArticles_never(articles) == FALSE

NoArticles(articles) == articles = <<>>

SentinelScores == [k \in ScoreKeys |-> <<0, 1>>]

\* the division by len(articles) raises ZeroDivisionError on an empty list,
\* which the except clause turns into "Error"
GetOverallSentiment(articles, lexicon) ==
    IF NoArticles(articles) THEN [label |-> "N/A", scores |-> SentinelScores]
    ELSE IF Len(articles) = 0 THEN [label |-> "Error", scores |-> SentinelScores]
    ELSE LET total == TotalScores(articles, 1, lexicon)
             avg   == [k \in ScoreKeys |-> Quotient(total[k], Len(articles))]
         IN  [label |-> OverallLabel(avg.compound), scores |-> avg]

(***************************************************************************)
(* st.cache_data(ttl=...): an entry is live while less than ttl seconds    *)
(* old; a call with a live entry returns its value without running the     *)
(* function, any other call runs it and stores the result at the current   *)
(* time.                                                                   *)
(***************************************************************************)
NEWS_TTL == 3600
SENTIMENT_TTL == 3600

CacheLive(cache, key, ttl, t) == \E e \in cache : e.key = key /\ t - e.stored_at < ttl
CacheValue(cache, key) == (CHOOSE e \in cache : e.key = key).value
CachePut(cache, key, value, t) ==
    {e \in cache : e.key # key} \cup {[key |-> key, value |-> value, stored_at |-> t]}

(***************************************************************************)
(* display_stock_info and main                                             *)
(***************************************************************************)
DisplayNumArticles == 5

\* start_date >= end_date (both date inputs always hold a date)
DateRangeInvalid_strict(start_date, end_date) == start_date > end_date

DateRangeInvalid(start_date, end_date) == start_date >= end_date

\* f"{info['fullTimeEmployees']:,}" raises ValueError on the string 'N/A'
OverviewRaises(info) == ~IsNumber(info.fullTimeEmployees)

\* the expander of each article reads title, source, publishedAt and url
RenderRaises(articles) ==
    \E i \in DOMAIN articles : ~({"title", "source", "publishedAt", "url"} \subseteq DOMAIN articles[i])

\* the cached call fetch_news_articles(symbol, info['longName'], num_articles=5):
\* hit says whether a live entry answered it, fetched is what the function
\* returns when run
CachedNews(hit, fetched, key, nCache, t) ==
    [articles      |-> IF hit THEN CacheValue(nCache, key) ELSE fetched.articles,
     newsCache     |-> IF hit THEN nCache ELSE CachePut(nCache, key, fetched.articles, t),
     newsApiCalls  |-> IF hit THEN 0 ELSE fetched.primaryCalls,
     fallbackCalls |-> IF hit THEN 0 ELSE fetched.fallbackCalls]

\* the lexicon under which VADER does the same with every text of the articles
UniformLexicon(articles, vader) == [x \in {SentimentText(a) : a \in Range(articles)} |-> vader]

\* `if articles:` the cached get_overall_sentiment(articles) and one expander
\* per article
ShowSentiment(news, vader, sCache, t) ==
    news @@
    [sentCache     |-> IF news.articles = <<>>
                          \/ CacheLive(sCache, news.articles, SENTIMENT_TTL, t)
                       THEN sCache
                       ELSE CachePut(sCache, news.articles,
                                     GetOverallSentiment(news.articles,
                                                         UniformLexicon(news.articles, vader)),
                                     t),
     sentimentInvoked |-> news.articles # <<>>,
     cacheLookups  |-> IF news.articles = <<>> THEN 1 ELSE 2,
     raised        |-> news.articles # <<>> /\ RenderRaises(news.articles)]

\* the "Sentiment Analysis" section of display_stock_info
SentimentSection(symbol, company_name, cfg, nenv, nCache, sCache, t) ==
    ShowSentiment(
        CachedNews(CacheLive(nCache, <<symbol, company_name, DisplayNumArticles>>, NEWS_TTL, t),
                   FetchNewsArticles(symbol, company_name, DisplayNumArticles, cfg.hasKey,
                                     cfg.nlp, nenv.primary, nenv.dlFails, nenv.yahoo, nenv.google),
                   <<symbol, company_name, DisplayNumArticles>>, nCache, t),
        nenv.vader, sCache, t)

NoRun == [outcome |-> "none"]

RunBase(symbol, start_date, end_date, t) ==
    [symbol |-> symbol, start_date |-> start_date, end_date |-> end_date, at |-> t,
     hist |-> NoneObj, info |-> NoneObj, articles |-> <<>>,
     marketInvoked |-> FALSE, newsInvoked |-> FALSE, sentimentInvoked |-> FALSE,
     attempts |-> 0, delays |-> 0, secondaryCalls |-> 0, avCalls |-> 0,
     newsApiCalls |-> 0, fallbackCalls |-> 0, cacheLookups |-> 0, stage |-> ""]

\* the run's record once fetch_stock_data has returned m
WithMarket(base, m) ==
    [base EXCEPT !.marketInvoked = TRUE, !.attempts = m.attempts, !.delays = m.delays,
                 !.secondaryCalls = m.secondaryCalls, !.avCalls = m.avCalls,
                 !.stage = m.stage, !.hist = m.hist, !.info = m.info]

\* display_stock_info reached its sentiment section, which did sec
WithNews(got, sec) ==
    [newsCache |-> sec.newsCache, sentCache |-> sec.sentCache,
     run |-> [got EXCEPT !.newsInvoked = TRUE, !.articles = sec.articles,
                         !.sentimentInvoked = sec.sentimentInvoked,
                         !.newsApiCalls = sec.newsApiCalls,
                         !.fallbackCalls = sec.fallbackCalls,
                         !.cacheLookups = sec.cacheLookups]
             @@ [outcome |-> IF sec.raised THEN "unexpected_error" ELSE "displayed"]]

Ended(run, outcome, nCache, sCache) ==
    [newsCache |-> nCache, sentCache |-> sCache, run |-> run @@ [outcome |-> outcome]]

\* main() from `if symbol:` on, fetch_stock_data having returned m
AfterFetch(symbol, got, m, cfg, nenv, nCache, sCache, t) ==
    IF m.raised THEN Ended(got, "unexpected_error", nCache, sCache)
    ELSE IF IsNoneObj(m.hist) \/ IsNoneObj(m.info) THEN Ended(got, "failed", nCache, sCache)
    ELSE IF OverviewRaises(m.info) THEN Ended(got, "unexpected_error", nCache, sCache)
    ELSE WithNews(got, SentimentSection(symbol, m.info.longName, cfg, nenv, nCache, sCache, t))

FetchAndShow(symbol, base, m, cfg, nenv, nCache, sCache, t) ==
    AfterFetch(symbol, WithMarket(base, m), m, cfg, nenv, nCache, sCache, t)

\* one run of the script's main() with the widget values symbol, start_date and
\* end_date, against the provider answers mkt and nenv.  outcome: "input_error"
\* (st.error and return), "no_symbol", "failed" (fetch_stock_data gave (None,
\* None)), "displayed", or "unexpected_error" (main's except clause)
MainRun(symbol, start_date, end_date, cfg, mkt, nenv, nCache, sCache, t) ==
    IF DateRangeInvalid(start_date, end_date)
    THEN Ended(RunBase(symbol, start_date, end_date, t), "input_error", nCache, sCache)
    ELSE IF symbol = S_empty
    THEN Ended(RunBase(symbol, start_date, end_date, t), "no_symbol", nCache, sCache)
    ELSE FetchAndShow(symbol, RunBase(symbol, start_date, end_date, t),
                      FetchStockData(symbol, start_date, end_date, mkt),
                      cfg, nenv, nCache, sCache, t)

(***************************************************************************)
(* Bounds and input sets                                                   *)
(***************************************************************************)
MaxEnts     == 1    \* entities spaCy reports for one text
MaxArticles == 2    \* articles in one News API response
MaxYahoo    == 2    \* items on the Yahoo page (besides the long page)
MaxGoogle   == 1    \* items in the Google News feed
MaxCount    == 1    \* small values of num_articles
MaxDate     == 2    \* calendar days
MaxRuns     == 2    \* script runs
MaxClock    == 3600 \* seconds the clock may reach
MaxScored   == 2    \* articles in one get_overall_sentiment call

T_LOSS  == <<"L","O","S","S">>
T_Date  == <<"d">>
Absent  == <<"<absent>">>

U1 == <<"u1">>
U2 == <<"u2">>

\* a dict with the given title and description; Absent leaves the key out
MkArticle(t, d) ==
    (IF t = Absent THEN <<>> ELSE ("title" :> t))
    @@ (IF d = Absent THEN <<>> ELSE ("description" :> d))
    @@ [source |-> "News API"]

RelTitles == {T_Apple, T_AAPL, T_Rain, T_Glossy, T_Stock, None, Absent}
RelDescriptions == {T_Rain, T_LOSS, S_empty, None}
RelInputs ==
    [article : {MkArticle(t, d) : t \in RelTitles, d \in RelDescriptions},
     company_name : {T_AppleInc, None}, symbol : {T_AAPL}, nlpLoaded : BOOLEAN]

\* what spaCy may report for a text: an exception, or up to MaxEnts labelled
\* spans of the text (its tokens or the whole text)
Spans(content) == Range(Split(content)) \cup {content}
LabelledSpans(content) ==
    {[text |-> t, label |-> l] : t \in Spans(content), l \in {"ORG", "PRODUCT", "PERSON"}}
NerOutcomes(content) ==
    {NerRaise} \cup {[raised |-> FALSE, ents |-> E] :
                        E \in {X \in SUBSET LabelledSpans(content) : Cardinality(X) <= MaxEnts}}

\* News API articles
P1 == [title |-> T_Apple, description |-> T_Stock, url |-> U1, source |-> "News API",
       publishedAt |-> T_Date]
P2 == [title |-> T_Rain, description |-> None, url |-> U1, source |-> "News API",
       publishedAt |-> T_Date]
P3 == [title |-> T_AAPL, description |-> S_empty, url |-> U2, source |-> "News API",
       publishedAt |-> T_Date]
P4 == [title |-> T_Stock, description |-> S_empty, source |-> "News API",
       publishedAt |-> T_Date]
PrimaryPool == {P1, P2, P3, P4}

PrimaryResponses ==
    {[status |-> "request_error", articles |-> <<>>], [status |-> "bad_payload", articles |-> <<>>]}
    \cup {[status |-> "ok", articles |-> q] : q \in SeqsUpTo(PrimaryPool, MaxArticles)}

\* Yahoo list items and Google feed items
YItem(t, l, r) == [title |-> t, link |-> l, description |-> S_empty, pub |-> T_Date, raises |-> r]
Y1 == YItem(T_Rain, <<"/", "n1">>, FALSE)
Y2 == YItem(T_Stock, <<YahooHost, "/", "n1">>, FALSE)
Y3 == YItem(S_empty, <<"/", "n2">>, FALSE)
Y4 == YItem(T_Stock, <<"/", "n3">>, TRUE)
YahooPool == {Y1, Y2, Y3}
LongPage == [i \in 1..(FallbackCap + 1) |-> YItem(T_Rain, <<"/", "p", ToString(i)>>, FALSE)]

G1 == YItem(T_AppleInc, <<"g1">>, FALSE)
G2 == YItem(T_Rain, <<"g2">>, FALSE)
GooglePool == {G1, G2}

Failed == [ok |-> FALSE, items |-> <<>>]
YahooResponses ==
    {Failed, [ok |-> TRUE, items |-> LongPage], [ok |-> TRUE, items |-> <<Y4, Y2>>]}
    \cup {[ok |-> TRUE, items |-> q] : q \in SeqsUpTo(YahooPool, MaxYahoo)}
GoogleResponses ==
    {Failed} \cup {[ok |-> TRUE, items |-> q] : q \in SeqsUpTo(GooglePool, MaxGoogle)}

NlpModes == {"off", "tokens", "raise"}
Counts == (0..MaxCount) \cup {DisplayNumArticles}
NewsInputs ==
    [symbol : {T_AAPL}, company_name : {T_AppleInc}, num_articles : Counts,
     hasKey : BOOLEAN, nlp : NlpModes]

\* article lists get_overall_sentiment is called on: articles as
\* fetch_news_articles and its fallback build them
A1 == WithFullText(P1, {})
A2 == WithFullText(P3, {U2})
A3 == YahooArticle(Y1)
SentPool == {A1, A2, A3}
SentInputs == [articles : SeqsUpTo(SentPool, MaxScored)]

\* what VADER may do with a text: raise, score it all zero (no word of the
\* text is in its lexicon), or give it one of these compound scores
Compounds == {-41, -40, -10, 0, 10, 39, 40, 41}
ScoreOf(c) ==
    [compound |-> c, pos |-> IF c > 0 THEN c ELSE 0, neg |-> IF c < 0 THEN -c ELSE 0,
     neu |-> 100 - Abs(c)]
VaderOutcomes ==
    {[raised |-> TRUE, scores |-> ZeroScores], [raised |-> FALSE, scores |-> ZeroScores]}
    \cup {[raised |-> FALSE, scores |-> ScoreOf(c)] : c \in Compounds}

\* provider answers main() is run against
BlobFull ==
    [k \in InfoKeys |->
        IF k = "longName" THEN T_AppleInc
        ELSE IF k \in {"sector", "industry", "country", "website"} THEN T_Apple
        ELSE Num(7)]
BlobBare == [longName |-> T_AppleInc]

AvOk   == [ok |-> TRUE, income |-> <<[date |-> T_Date, eps |-> 6], [date |-> T_Date, eps |-> 0]>>,
           balance |-> <<>>, cash |-> <<>>]
AvFail == [ok |-> FALSE, income |-> <<>>, balance |-> <<>>, cash |-> <<>>]

Mkt(h, c, i, b, a) ==
    [history |-> h, closes |-> c, infoOk |-> i, blob |-> b, av |-> a, recsOk |-> a.ok, recs |-> <<>>]
MktEnvs ==
    {Mkt("raise", <<>>, TRUE, BlobFull, AvOk), Mkt("ok", <<>>, TRUE, BlobFull, AvOk),
     Mkt("ok", <<150>>, FALSE, BlobFull, AvOk), Mkt("ok", <<150>>, TRUE, BlobFull, AvOk),
     Mkt("ok", <<150>>, TRUE, BlobBare, AvFail)}

\* what VADER does with the texts of a run's articles
QuietVader == [raised |-> TRUE, scores |-> ZeroScores]
Vaders == {[raised |-> FALSE, scores |-> ScoreOf(41)]}

NewsEnvs ==
    [primary : {[status |-> "request_error", articles |-> <<>>],
                [status |-> "ok", articles |-> <<P2, P1>>]},
     dlFails : {{U1}},
     yahoo   : {Failed, [ok |-> TRUE, items |-> <<Y1>>]},
     google  : {Failed},
     vader   : Vaders]

Symbols == {T_AAPL, S_empty}
Dates   == 1..MaxDate
Configs == {[hasKey |-> TRUE, nlp |-> "tokens"], [hasKey |-> FALSE, nlp |-> "off"]}

\* arguments and provider answers of a single fetch_stock_data call: every
\* combination of the four providers' failures
StockInputs == [symbol : {T_AAPL}, start_date : {1}, end_date : Dates]
StockEnvs ==
    {[Mkt(h, c, i, b, a) EXCEPT !.recsOk = r] :
        h \in {"raise", "ok"}, c \in {<<>>, <<0>>, <<150>>}, i \in BOOLEAN,
        b \in {BlobFull, BlobBare}, a \in {AvOk, AvFail}, r \in BOOLEAN}


(***************************************************************************)
(* Specification of check_article_relevance: one call on drawn arguments   *)
(***************************************************************************)
Idle == [done |-> FALSE]

InitRel ==
    /\ relIn \in RelInputs
    /\ relOut = Idle
    /\ newsIn = Idle /\ newsOut = Idle
    /\ now = 0 /\ newsCache = {} /\ sentCache = {}
    /\ env = Idle /\ runs = 0 /\ prev = NoRun /\ last = NoRun
    /\ sentIn = Idle /\ sentOut = Idle /\ stockIn = Idle /\ stockOut = Idle

CheckRelevanceCall ==
    /\ ~relOut.done
    /\ \E nerOut \in (IF relIn.nlpLoaded THEN NerOutcomes(Content(relIn.article))
                      ELSE {[raised |-> FALSE, ents |-> {}]}) :
          relOut' = [done |-> TRUE, ner |-> nerOut,
                     result |-> CheckArticleRelevance(relIn.article, relIn.company_name,
                                                      relIn.symbol, relIn.nlpLoaded, nerOut)]
    /\ UNCHANGED <<relIn, newsIn, newsOut, now, newsCache, sentCache, env, runs, prev, last,
                 sentIn, sentOut, stockIn, stockOut>>

NextRel == CheckRelevanceCall

SpecRel == InitRel /\ [][NextRel]_vars

(***************************************************************************)
(* Specification of fetch_news_articles: one call on drawn arguments,      *)
(* against drawn provider answers.  newsOut keeps the answers of the       *)
(* providers that were asked.                                              *)
(***************************************************************************)
InitNews ==
    /\ newsIn \in NewsInputs
    /\ newsOut = Idle
    /\ relIn = Idle /\ relOut = Idle
    /\ now = 0 /\ newsCache = {} /\ sentCache = {}
    /\ env = Idle /\ runs = 0 /\ prev = NoRun /\ last = NoRun
    /\ sentIn = Idle /\ sentOut = Idle /\ stockIn = Idle /\ stockOut = Idle

NewsCall(primary, dlFails, yahoo, google) ==
    FetchNewsArticles(newsIn.symbol, newsIn.company_name, newsIn.num_articles, newsIn.hasKey,
                      newsIn.nlp, primary, dlFails, yahoo, google)

FetchNewsCall ==
    /\ ~newsOut.done
    /\ \E primary \in (IF newsIn.hasKey THEN PrimaryResponses ELSE {Failed}) :
         IF NewsCall(primary, {}, Failed, Failed).via = "primary"
         THEN \E dlFails \in SUBSET {U1, U2} :
                newsOut' = [done |-> TRUE, primary |-> primary, dlFails |-> dlFails,
                            yahoo |-> Failed, google |-> Failed,
                            res |-> NewsCall(primary, dlFails, Failed, Failed)]
         ELSE \E yahoo \in YahooResponses, google \in GoogleResponses :
                LET res == NewsCall(primary, {}, yahoo, google) IN
                newsOut' = [done |-> TRUE, primary |-> primary, dlFails |-> {},
                            yahoo |-> yahoo,
                            google |-> IF res.googleCalls = 1 THEN google ELSE Failed,
                            res |-> res]
    /\ UNCHANGED <<relIn, relOut, newsIn, now, newsCache, sentCache, env, runs, prev, last,
                 sentIn, sentOut, stockIn, stockOut>>

NextNews == FetchNewsCall

SpecNews == InitNews /\ [][NextNews]_vars

(***************************************************************************)
(* Specification of get_overall_sentiment: one call on a drawn article     *)
(* list, VADER scoring each text as drawn.  Equal texts get equal scores.  *)
(***************************************************************************)
InitSent ==
    /\ sentIn \in SentInputs
    /\ sentOut = Idle
    /\ relIn = Idle /\ relOut = Idle /\ newsIn = Idle /\ newsOut = Idle
    /\ stockIn = Idle /\ stockOut = Idle
    /\ now = 0 /\ newsCache = {} /\ sentCache = {}
    /\ env = Idle /\ runs = 0 /\ prev = NoRun /\ last = NoRun

OverallSentimentCall ==
    /\ ~sentOut.done
    /\ \E lexicon \in [{SentimentText(a) : a \in Range(sentIn.articles)} -> VaderOutcomes] :
         sentOut' = [done |-> TRUE, lexicon |-> lexicon,
                     res |-> GetOverallSentiment(sentIn.articles, lexicon)]
    /\ UNCHANGED <<relIn, relOut, newsIn, newsOut, sentIn, stockIn, stockOut, now, newsCache,
                   sentCache, env, runs, prev, last>>

NextSent == OverallSentimentCall

SpecSent == InitSent /\ [][NextSent]_vars

(***************************************************************************)
(* Specification of the two fetchers at the provider boundary: one call of *)
(* fetch_news_articles or one call of fetch_stock_data, against drawn      *)
(* provider answers.                                                       *)
(***************************************************************************)
InitFetch ==
    /\ \/ newsIn \in NewsInputs /\ stockIn = Idle
       \/ newsIn = Idle /\ stockIn \in StockInputs
    /\ newsOut = Idle /\ stockOut = Idle
    /\ relIn = Idle /\ relOut = Idle /\ sentIn = Idle /\ sentOut = Idle
    /\ now = 0 /\ newsCache = {} /\ sentCache = {}
    /\ env = Idle /\ runs = 0 /\ prev = NoRun /\ last = NoRun

FetchNewsStep ==
    /\ "hasKey" \in DOMAIN newsIn
    /\ FetchNewsCall

FetchStockCall ==
    /\ "symbol" \in DOMAIN stockIn
    /\ ~stockOut.done
    /\ \E mkt \in StockEnvs :
         stockOut' = [done |-> TRUE, mkt |-> mkt,
                      res |-> FetchStockData(stockIn.symbol, stockIn.start_date,
                                             stockIn.end_date, mkt)]
    /\ UNCHANGED <<relIn, relOut, newsIn, newsOut, sentIn, sentOut, stockIn, now, newsCache,
                   sentCache, env, runs, prev, last>>

NextFetch == FetchNewsStep \/ FetchStockCall

SpecFetch == InitFetch /\ [][NextFetch]_vars

(***************************************************************************)
(* Specification of the page: script runs of main() and the passing of time*)
(***************************************************************************)
Init ==
    /\ env \in Configs
    /\ now = 0 /\ newsCache = {} /\ sentCache = {}
    /\ runs = 0 /\ prev = NoRun /\ last = NoRun
    /\ relIn = Idle /\ relOut = Idle /\ newsIn = Idle /\ newsOut = Idle
    /\ sentIn = Idle /\ sentOut = Idle /\ stockIn = Idle /\ stockOut = Idle

\* The answers of providers a run never asks are not drawn: QuietNews and
\* QuietVader stand for them.
QuietNews == [primary |-> [status |-> "request_error", articles |-> <<>>], dlFails |-> {},
              yahoo |-> Failed, google |-> Failed, vader |-> QuietVader]

Main ==
    /\ runs < MaxRuns
    /\ \E symbol \in Symbols, start_date \in Dates, end_date \in Dates :
         \E mkt \in (IF DateRangeInvalid(start_date, end_date) \/ symbol = S_empty
                     THEN {Mkt("raise", <<>>, TRUE, BlobFull, AvOk)} ELSE MktEnvs) :
           \E nenv \in (IF MainRun(symbol, start_date, end_date, env, mkt, QuietNews,
                                   newsCache, sentCache, now).run.newsInvoked
                        THEN NewsEnvs ELSE {QuietNews}) :
              LET r == MainRun(symbol, start_date, end_date, env, mkt, nenv,
                               newsCache, sentCache, now)
              IN  /\ last' = r.run
                  /\ newsCache' = r.newsCache
                  /\ sentCache' = r.sentCache
    /\ prev' = last
    /\ runs' = runs + 1
    /\ UNCHANGED <<relIn, relOut, newsIn, newsOut, now, env,
                 sentIn, sentOut, stockIn, stockOut>>

Tick ==
    /\ \E d \in {NEWS_TTL - 1, NEWS_TTL} : now + d <= MaxClock /\ now' = now + d
    /\ UNCHANGED <<relIn, relOut, newsIn, newsOut, newsCache, sentCache, env, runs, prev, last,
                 sentIn, sentOut, stockIn, stockOut>>

Next == Main \/ Tick

Spec == Init /\ [][Next]_vars

(***************************************************************************)
(* Properties                                                              *)
(***************************************************************************)
Ran == last.outcome # "none"
ValidInput == Ran /\ last.outcome \notin {"input_error", "no_symbol"}

\* C1: a run whose date range has start >= end reports the input error and
\* returns without calling fetch_stock_data, a news provider or a cache.
C1_InvalidRangeContactsNothing ==
    (Ran /\ last.start_date >= last.end_date) =>
        /\ last.outcome = "input_error"
        /\ ~last.marketInvoked /\ ~last.newsInvoked /\ ~last.sentimentInvoked
        /\ last.attempts = 0 /\ last.secondaryCalls = 0 /\ last.avCalls = 0
        /\ last.newsApiCalls = 0 /\ last.fallbackCalls = 0 /\ last.cacheLookups = 0

C1_Witness ==
    /\ Ran /\ last.symbol = T_AAPL /\ last.start_date = last.end_date
    /\ last.outcome = "input_error"

\* C2: a second run in immediate succession with the same symbol and date
\* range, the TTL not elapsed, returns the same result as the first and makes
\* no provider call at all, market data and news alike.
C2_SecondRunServedFromCache ==
    (/\ prev.outcome = "displayed" /\ Ran
     /\ last.symbol = prev.symbol
     /\ last.start_date = prev.start_date /\ last.end_date = prev.end_date
     /\ last.at - prev.at < NEWS_TTL) =>
        /\ last.attempts = 0 /\ last.avCalls = 0
        /\ last.newsApiCalls = 0 /\ last.fallbackCalls = 0
        /\ last.hist = prev.hist /\ last.info = prev.info /\ last.articles = prev.articles

\* C3: when the primary market-data provider fails, the fetcher has made 3
\* primary attempts with 2 delays between them and then asked the secondary
\* provider.
C3_ThreeAttemptsTwoDelaysThenSecondary ==
    (Ran /\ last.marketInvoked /\ last.stage = "history_error") =>
        /\ last.attempts = 3
        /\ last.delays = 2
        /\ last.secondaryCalls = 1

\* C4: when the primary provider's price history is empty, the fetch asks the
\* secondary provider and returns its series, not a failure.
C4_EmptyPrimaryServedBySecondary ==
    (Ran /\ last.marketInvoked /\ last.stage = "empty_history") =>
        /\ last.secondaryCalls >= 1
        /\ ~IsNoneObj(last.hist) /\ ~IsNoneObj(last.info)

\* C5: in every run with valid input the news fetch is invoked whether or not
\* the market-data fetch failed, and a non-empty list is scored.
C5_NewsIndependentOfMarket ==
    (ValidInput /\ last.marketInvoked /\ last.stage # "ok") =>
        /\ last.newsInvoked
        /\ (last.articles # <<>> => last.sentimentInvoked)

(***************************************************************************)
(* Properties of fetch_news_articles                                       *)
(***************************************************************************)
NewsRelevant(a) == Relevant(a, newsIn.company_name, newsIn.symbol, newsIn.nlp)

\* the URLs of the relevant articles before position i
RelevantUrlsBefore(articles, i) ==
    {articles[j].url : j \in {k \in 1..(i - 1) : NewsRelevant(articles[k])
                                                 /\ "url" \in DOMAIN articles[k]}}

\* a relevant article without a url is processed before num_articles are held
ProcessingFails(articles, num_articles) ==
    \E i \in DOMAIN articles :
        /\ NewsRelevant(articles[i])
        /\ "url" \notin DOMAIN articles[i]
        /\ (num_articles = 0 \/ Cardinality(RelevantUrlsBefore(articles, i)) < num_articles)

NoKey        == ~newsIn.hasKey
PrimaryFails == newsIn.hasKey /\ newsOut.primary.status # "ok"
PrimaryEmpty == newsIn.hasKey /\ newsOut.primary.status = "ok" /\ newsOut.primary.articles = <<>>
PrimaryGood  == newsIn.hasKey /\ newsOut.primary.status = "ok" /\ newsOut.primary.articles # <<>>

\* C7 as stated: the fallback source is consulted exactly when no credential
\* is configured, the primary returns zero articles or the primary request
\* fails; without a credential the primary is not contacted; a primary that
\* succeeds with at least one article keeps the fallback out.
C7_FallbackExactlyOnThreeConditions ==
    newsOut.done =>
        /\ (newsOut.res.fallbackCalls = 1) <=> (NoKey \/ PrimaryEmpty \/ PrimaryFails)
        /\ NoKey => newsOut.res.primaryCalls = 0
        /\ PrimaryGood => newsOut.res.fallbackCalls = 0

\* C7 amended: the primary is tried first (never without a credential), and
\* the fallback source is consulted exactly when no credential is configured,
\* the primary returns zero articles, the primary request fails, or processing
\* the primary's articles raises (a relevant article without a url is reached).
C7_FallbackOnFourConditions ==
    newsOut.done =>
        /\ (newsOut.res.fallbackCalls = 1) <=>
              (\/ NoKey \/ PrimaryEmpty \/ PrimaryFails
               \/ (PrimaryGood /\ ProcessingFails(newsOut.primary.articles, newsIn.num_articles)))
        /\ newsOut.res.fallbackCalls \in {0, 1}
        /\ (newsOut.res.primaryCalls = 0) <=> NoKey
        /\ newsOut.res.primaryCalls \in {0, 1}

C7_Witness ==
    /\ newsOut.done /\ PrimaryGood /\ newsOut.res.fallbackCalls = 1
    /\ newsOut.res.primaryCalls = 1

\* the candidates a call had: the primary's articles, or the parsed Yahoo
\* items followed by the parsed Google items
Parsed(items) == SelectSeq(items, LAMBDA it : ~it.raises /\ it.title # S_empty /\ it.link # S_empty)
RECURSIVE MapSeq(_, _)
MapSeq(Op(_), q) == IF q = <<>> THEN <<>> ELSE <<Op(Head(q))>> \o MapSeq(Op, Tail(q))
Candidates ==
    IF newsOut.res.via = "primary" THEN newsOut.primary.articles
    ELSE MapSeq(YahooArticle, Parsed(newsOut.yahoo.items))
         \o MapSeq(GoogleArticle, Parsed(newsOut.google.items))

\* the title and URL of an article
Ident(a) == <<IF "title" \in DOMAIN a THEN a.title ELSE None,
              IF "url" \in DOMAIN a THEN a.url ELSE None>>
UrlOf(a) == IF "url" \in DOMAIN a THEN a.url ELSE None

\* first occurrence of each URL
RECURSIVE DedupFirst(_, _)
DedupFirst(q, seen) ==
    IF q = <<>> THEN <<>>
    ELSE IF UrlOf(Head(q)) \in seen THEN DedupFirst(Tail(q), seen)
    ELSE <<Head(q)>> \o DedupFirst(Tail(q), seen \cup {UrlOf(Head(q))})

\* C8: the returned sequence is the first min(count, number of relevant
\* candidates) candidates that pass the Relevance Filter, in provider order:
\* never more than count articles, never an article the filter rejects,
\* whichever provider supplied the candidates.
C8_FirstCountRelevantCandidates ==
    newsOut.done =>
        /\ Len(newsOut.res.articles) <= newsIn.num_articles
        /\ \A i \in DOMAIN newsOut.res.articles : NewsRelevant(newsOut.res.articles[i])
        /\ MapSeq(Ident, newsOut.res.articles)
             = MapSeq(Ident, Take(SelectSeq(DedupFirst(Candidates, {}), NewsRelevant),
                                  newsIn.num_articles))

\* C9: only the first candidate carrying a URL is ever considered: a returned
\* article is the first candidate of its URL, and no two returned articles
\* share a URL.
C9_FirstOccurrenceOfUrlWins ==
    newsOut.done =>
        /\ \A i, j \in DOMAIN newsOut.res.articles :
              newsOut.res.articles[i].url = newsOut.res.articles[j].url => i = j
        /\ \A i \in DOMAIN newsOut.res.articles :
              \E k \in DOMAIN Candidates :
                 /\ Ident(Candidates[k]) = Ident(newsOut.res.articles[i])
                 /\ \A m \in 1..(k - 1) : UrlOf(Candidates[m]) # UrlOf(Candidates[k])

(***************************************************************************)
(* Properties of check_article_relevance                                   *)
(***************************************************************************)
NineFinanceKeywords ==
    {<<"s","t","o","c","k">>, <<"s","h","a","r","e","s">>, <<"m","a","r","k","e","t">>,
     <<"i","n","v","e","s","t","o","r">>, <<"f","i","n","a","n","c","e">>,
     <<"e","a","r","n","i","n","g","s">>, <<"r","e","v","e","n","u","e">>,
     <<"p","r","o","f","i","t">>, <<"l","o","s","s">>}

\* the lowercase title + ' ' + description of the call's article
RelText ==
    LET f(k) == IF k \in DOMAIN relIn.article /\ relIn.article[k] # None
                THEN Lower(relIn.article[k]) ELSE <<>>
    IN  f("title") \o <<" ">> \o f("description")

\* the company-name tokens and the symbol, lowercased
RelNames ==
    (IF relIn.company_name = None THEN {} ELSE Range(Split(Lower(relIn.company_name))))
    \cup {Lower(relIn.symbol)}

RelKeywordMatch == \E k \in NineFinanceKeywords : IsSubstr(k, RelText)

\* the entity match when entity extraction is available (none when it raises),
\* the substring match when it is not
RelNameMatch ==
    IF relIn.nlpLoaded
    THEN /\ ~relOut.ner.raised
         /\ \E e \in relOut.ner.ents : e.label \in {"ORG", "PRODUCT"} /\ Lower(e.text) \in RelNames
    ELSE \E n \in RelNames : IsSubstr(n, RelText)

\* C10: the result is true iff the entity/substring match holds or the text
\* contains one of the nine finance keywords; a text with neither a name token,
\* the symbol nor a keyword is not relevant; a keyword alone suffices even when
\* entity extraction raises.
C10_RelevantIffMatchOrKeyword ==
    relOut.done =>
        /\ relOut.result <=> (RelNameMatch \/ RelKeywordMatch)
        /\ ((\A n \in RelNames : ~IsSubstr(n, RelText)) /\ ~RelKeywordMatch) => ~relOut.result
        /\ (relIn.nlpLoaded /\ relOut.ner.raised /\ RelKeywordMatch) => relOut.result

C10_Witness ==
    /\ relOut.done /\ relIn.nlpLoaded /\ relOut.ner.raised
    /\ RelKeywordMatch /\ ~RelNameMatch /\ relOut.result

\* the compound score VADER gave the i-th article of the call, as
\* analyze_sentiment passes it on
CompoundOf(i) ==
    IF sentOut.lexicon[SentimentText(sentIn.articles[i])].raised THEN 0
    ELSE sentOut.lexicon[SentimentText(sentIn.articles[i])].scores.compound

RECURSIVE CompoundSum(_)
CompoundSum(i) == IF i = 0 THEN 0 ELSE CompoundOf(i) + CompoundSum(i - 1)

AllZero(i) ==
    \/ sentOut.lexicon[SentimentText(sentIn.articles[i])].raised
    \/ sentOut.lexicon[SentimentText(sentIn.articles[i])].scores = ZeroScores

\* C11: get_overall_sentiment returns the label "N/A" with all-zero scores on an
\* empty list and on no other list; one article scored all zero gets the same
\* scores but the label "Neutral".
C11_SentinelIffEmpty ==
    sentOut.done =>
        /\ (sentOut.res.label = "N/A") <=> (sentIn.articles = <<>>)
        /\ sentIn.articles = <<>> =>
              \A k \in ScoreKeys : sentOut.res.scores[k][1] = 0
        /\ (Len(sentIn.articles) = 1 /\ AllZero(1)) =>
              /\ sentOut.res.label = "Neutral"
              /\ \A k \in ScoreKeys : sentOut.res.scores[k][1] = 0

C11_Witness ==
    /\ sentOut.done /\ sentIn.articles = <<>> /\ sentOut.res.label = "N/A"

\* C13: on a non-empty list the label is fixed by the mean c of the articles'
\* compound scores: c > 0.4 Very Positive, 0.1 <= c <= 0.4 Positive,
\* -0.1 < c < 0.1 Neutral, -0.4 <= c <= -0.1 Negative, c < -0.4 Very Negative;
\* the boundaries 0.4 and 0.1 are Positive, -0.1 and -0.4 Negative.  The
\* returned compound score is that mean.
C13_LabelByThresholds ==
    (sentOut.done /\ sentIn.articles # <<>>) =>
        LET n == Len(sentIn.articles)
            s == CompoundSum(Len(sentIn.articles))
            c == sentOut.res.scores.compound
        IN  /\ c[2] > 0 /\ c[1] * n = s * c[2]
            /\ s > 40 * n => sentOut.res.label = "Very Positive"
            /\ (10 * n <= s /\ s <= 40 * n) => sentOut.res.label = "Positive"
            /\ (-10 * n < s /\ s < 10 * n) => sentOut.res.label = "Neutral"
            /\ (-40 * n <= s /\ s <= -10 * n) => sentOut.res.label = "Negative"
            /\ s < -40 * n => sentOut.res.label = "Very Negative"

\* two articles with different scores whose mean is exactly 0.4
C13_Witness ==
    /\ sentOut.done /\ Len(sentIn.articles) = 2
    /\ CompoundOf(1) # CompoundOf(2)
    /\ CompoundSum(2) = 80
    /\ sentOut.res.label = "Positive"

\* C12: whatever the providers do, fetch_stock_data returns either a
\* (history, info) pair or (None, None) and fetch_news_articles returns a list,
\* which may be empty; no exception leaves either function.
C12_ProviderErrorsNeverEscape ==
    /\ newsOut.done =>
          /\ ~newsOut.res.raised
          /\ DOMAIN newsOut.res.articles = 1..Len(newsOut.res.articles)
    /\ stockOut.done =>
          /\ ~stockOut.res.raised
          /\ \/ IsNoneObj(stockOut.res.hist) /\ IsNoneObj(stockOut.res.info)
             \/ /\ ~IsNoneObj(stockOut.res.hist) /\ ~IsNoneObj(stockOut.res.info)
                /\ stockOut.res.hist.rows = stockOut.mkt.closes
                /\ InfoKeys \subseteq DOMAIN stockOut.res.info

\* the primary's payload does not parse and both fallback sources fail
C12_Witness ==
    /\ newsOut.done /\ newsIn.hasKey /\ newsOut.primary.status = "bad_payload"
    /\ newsOut.yahoo = Failed /\ newsOut.res.googleCalls = 1 /\ newsOut.google = Failed
    /\ newsOut.res.articles = <<>>

\* the articles the primary's response holds, whatever full_text they got
FromPrimary(a) ==
    /\ "full_text" \in DOMAIN a
    /\ \E i \in DOMAIN newsOut.primary.articles :
          newsOut.primary.articles[i] = [k \in DOMAIN a \ {"full_text"} |-> a[k]]

\* C14: the list fetch_news_articles returns is either made of the primary's
\* articles only, each with a full_text field, or is exactly what the fallback
\* returns; after an error in the middle of processing it is the fallback's
\* result, without the primary articles collected before the error.
C14_SingleSource ==
    newsOut.done =>
        LET fb == FetchNewsArticlesFallback(newsIn.symbol, newsIn.company_name, newsIn.nlp,
                                            newsOut.yahoo, newsOut.google).articles
        IN  /\ \/ /\ newsOut.res.fallbackCalls = 0
                  /\ \A i \in DOMAIN newsOut.res.articles : FromPrimary(newsOut.res.articles[i])
               \/ /\ newsOut.res.fallbackCalls = 1
                  /\ newsOut.res.articles = fb
            /\ newsOut.res.reason = "processing_error" => newsOut.res.articles = fb

\* a relevant article was collected before one without url raised, and the
\* fallback found something else
C14_Witness ==
    /\ newsOut.done /\ newsOut.res.reason = "processing_error"
    /\ newsOut.primary.articles = <<P1, P4>>
    /\ newsOut.res.articles # <<>>

====
